---- MODULE Spec2Model ----
(***************************************************************************)
(* Model of src/flac.cpp (node-flac): one decode session (struct Data),    *)
(* its worker thread (Data::flacThread and the decoder callbacks), the     *)
(* consumer thread (Open, Feed, Close, Data::asyncCallback,                *)
(* Data::weakCallback) and the process-wide statics Data::openCount and    *)
(* Data::extName, which other sessions of the same process also change.    *)
(*                                                                         *)
(* libFLAC is an opaque collaborator: one call of                          *)
(* FLAC__stream_decoder_process_single is modelled as any number of read   *)
(* callbacks followed by at most one frame or metadata callback.           *)
(***************************************************************************)
EXTENDS Integers, Sequences, FiniteSets, TLC

\* ---------------------------------------------------------------- bounds
MaxChunk == 2       \* largest fed buffer, in bytes
MaxWant == 2        \* largest *bytes the decoder asks the read callback for
MaxFeeds == 2       \* Feed calls that push a buffer
MaxCalls == 2       \* Close calls and Feed calls that push nothing
MaxOthers == 1      \* other sessions of the process open at the same time
MaxFrames == 3      \* bytes fed, and so frames decoded, in WriteSpec
MaxBlocks == 2      \* bytes fed, and so metadata blocks decoded, in TagSpec

VARIABLES
    \* statics
    openCount,      \* Data::openCount
    extName,        \* Data::extName: "empty", or the Private it holds: "mine" is the
                    \* one the handle of this session stores its External under,
                    \* "other" any other one
    others,         \* open sessions other than the one followed here
    \* struct Data
    alloc,          \* "none" | "live" | "leaked" | "freed": the Data allocation
    handle,         \* "none" | "held" | "gone": the weak object returned by Open
    stopped, needsDone,
    cbSet,          \* Data::context and Data::callback are non-empty
    decoder,        \* "null" | "live" | "dangling": Data::decoder
    asyncState,     \* "uninit" | "active" | "closing" | "closed": Data::async
    asyncPending,   \* uv_async_send seen and asyncCallback not yet invoked for it
    thread,         \* "none" | "running" | "joined": Data::thread
    mutex,          \* "free" | "worker": holder of Data::mutex
    condSig,        \* uv_cond_signal delivered to the worker waiting on Data::cond
    inbuffers,      \* sequence of [where, buffer]
    messages,       \* sequence of Message
    currentFormat,
    \* worker thread
    wpc,            \* "none" | "start" | "dec" | "read" | "wait" | "check" | "deadlock" | "exited"
    want,           \* *bytes of the read callback in progress
    decState,       \* "normal" | "eos": FLAC__stream_decoder_get_state
    buffered,       \* the decoder has read bytes it has not yet turned into a block
    framesOut,      \* frames the decoder has handed to the write callback
    \* consumer thread
    cpc,            \* "js" | "feed_lock" | "close_lock" | "close_join" | "drain_lock"
                    \* | "deliver" | "call"
    closeFrom,      \* caller of the Data::close in progress: "Close" | "End" | "weak"
    feedArg,        \* size of the buffer of the Feed in progress
    local,          \* localMessages of the asyncCallback in progress
    localCb,        \* the Local callback/context of that asyncCallback are non-empty
    inCallback,     \* the consumer callback is running (JavaScript inside asyncCallback)
    thrown,         \* outcome of the last Open/Feed/Close call
    ncalls,         \* Close calls and Feed calls that pushed nothing, so far
    crashed,        \* the process has died (null handle dereference, abort())
    \* history
    feeds,          \* Feed calls that pushed a buffer
    fedCount,       \* bytes pushed so far; the fed stream is the bytes 1..fedCount
    readOut,        \* bytes returned by the read callbacks, in order
    enq,            \* every Message pushed to messages, in order
    delivered,      \* every Message the consumer callback was called with, in order
    joinCount,      \* uv_thread_join calls
    deleteCount,    \* FLAC__stream_decoder_delete calls
    closeRuns,      \* Data::close calls that got past 'if (!decoder) return'
    closeCalls,     \* Data::close calls
    exitReason,     \* "none" | "stop" | "eos": the break flacThread left its loop by
    donesSinceRead, \* Done messages pushed since a read last supplied data
    closeWaitSteps, \* decode steps finished while Data::close waits for the mutex
                    \* (counted up to 2)
    written,        \* the frames the decoder handed to writeCallback, in order
    blocks          \* the VORBIS_COMMENT blocks it handed to metadataCallback

statics == <<openCount, extName, others>>
dataFlags == <<stopped, needsDone, cbSet, decoder, currentFormat>>
asyncVars == <<asyncState, asyncPending>>
queues == <<inbuffers, messages>>
workerVars == <<wpc, want, decState, buffered, framesOut>>
drainVars == <<local, localCb, inCallback>>
callVars == <<thrown, ncalls>>
feedHist == <<feeds, fedCount>>
handed == <<written, blocks>>
workerHist == <<readOut, enq, exitReason, donesSinceRead, closeWaitSteps, handed>>
closeHist == <<joinCount, deleteCount, closeRuns, closeCalls>>

vars == <<statics, alloc, handle, dataFlags, asyncVars, thread, mutex,
          condSig, queues, workerVars, cpc, closeFrom, feedArg, drainVars, callVars,
          crashed, feedHist, workerHist, delivered, closeHist>>

\* ------------------------------------------------------------- messages
NoFormat == [sampleRate |-> 0, channels |-> 0, bitsPerSample |-> 0]

\* struct Message: the type and the variant (a Format, or the tags of a Metadata, or
\* the bytes of a Data; Done and End carry an empty string).
Msg(t, fmt, data) == [type |-> t, format |-> fmt, data |-> data]

\* Frame headers the decoder may hand to the write callback.
FrameHeaders ==
    { [sample_rate |-> 44100, channels |-> 2, bits_per_sample |-> 16, blocksize |-> 1] }

\* The samples of a frame, buffer[channel][sample], made from one number x.
FrameBuffer(h, x) ==
    [j \in 1..h.channels |-> [i \in 1..h.blocksize |-> x + (j - 1) + 2 * (i - 1)]]

\* VORBIS_COMMENT blocks the decoder may hand to the metadata callback; an entry is
\* the sequence of its characters.
CommentBlocks ==
    { [vendor_string |-> <<"v">>, comments |-> << <<"A", "=", "b">> >>] }

AsyncSendLost == asyncPending' = asyncPending

\* uv_async_send: wakes are coalesced into one pending flag.
AsyncSend == asyncPending' = TRUE

\* uv_cond_signal: wakes the worker if it is waiting, otherwise it is lost.
CondSignal == condSig' = (condSig \/ wpc = "wait")

Running == ~crashed

\* JavaScript of the consumer can run: at top level, or inside the consumer callback.
JsRunning == Running /\ cpc = "js"
TopLevel == Running /\ cpc = "js" /\ ~inCallback

\* ------------------------------------------------------------ initial state
Init ==
    /\ openCount = 0 /\ extName = "empty" /\ others = 0
    /\ alloc = "none" /\ handle = "none"
    /\ stopped = FALSE /\ needsDone = FALSE /\ cbSet = FALSE /\ decoder = "null"
    /\ asyncState = "uninit" /\ asyncPending = FALSE
    /\ thread = "none" /\ mutex = "free" /\ condSig = FALSE
    /\ inbuffers = <<>> /\ messages = <<>> /\ currentFormat = NoFormat
    /\ wpc = "none" /\ want = 0 /\ decState = "normal" /\ buffered = FALSE /\ framesOut = 0
    /\ cpc = "js" /\ closeFrom = "none" /\ feedArg = 0
    /\ local = <<>> /\ localCb = FALSE /\ inCallback = FALSE
    /\ thrown = "none" /\ ncalls = 0 /\ crashed = FALSE
    /\ feeds = 0 /\ fedCount = 0 /\ readOut = <<>> /\ enq = <<>> /\ delivered = <<>>
    /\ joinCount = 0 /\ deleteCount = 0 /\ closeRuns = 0 /\ closeCalls = 0
    /\ exitReason = "none" /\ donesSinceRead = 0 /\ closeWaitSteps = 0
    /\ written = <<>> /\ blocks = <<>>

\* ------------------------------------------------------------------ Open
OpenFailures == {"callback", "decoder_new", "init_stream", "async_init", "thread_create"}

OpenError(fail) ==
    CASE fail = "callback" -> "Argument must be a function"
      [] fail = "decoder_new" -> "Unable to create decoder"
      [] fail = "init_stream" -> "Failed to initialize flac stream"
      [] fail = "async_init" -> "Failed to init async handle"
      [] fail = "thread_create" -> "Failed to init thread"
      [] OTHER -> "ok"

\* NAN_METHOD(Open), failing at `fail`: every failing path returns without deleting
\* the Data it allocated.
OpenFail(fail) ==
    /\ TopLevel /\ alloc = "none"
    /\ alloc' = "leaked"
    /\ thrown' = OpenError(fail)
    /\ cbSet' = (fail # "callback")
    /\ decoder' = CASE fail \in {"callback", "decoder_new"} -> "null"
                    [] fail = "init_stream" -> "live"
                    [] OTHER -> "dangling"
    /\ deleteCount' = IF fail \in {"async_init", "thread_create"} THEN 1 ELSE 0
    /\ asyncState' = IF fail = "thread_create" THEN "active" ELSE asyncState
    /\ mutex' = IF fail = "thread_create" THEN "destroyed" ELSE mutex
    /\ UNCHANGED <<statics, handle, stopped, needsDone, currentFormat,
                   asyncPending, thread, condSig, queues, workerVars, cpc, closeFrom,
                   feedArg, drainVars, ncalls, crashed, feedHist, workerHist, delivered,
                   joinCount, closeRuns, closeCalls>>

\* NAN_METHOD(Open), every step succeeding: the worker thread is created, extName is
\* created if it is empty, openCount is incremented and the weak handle is returned.
OpenOk ==
    /\ TopLevel /\ alloc = "none"
    /\ alloc' = "live"
    /\ cbSet' = TRUE /\ decoder' = "live"
    /\ asyncState' = "active"
    /\ thread' = "running" /\ wpc' = "start"
    /\ extName' = "mine"
    /\ openCount' = openCount + 1
    /\ handle' = "held"
    /\ thrown' = "ok"
    /\ UNCHANGED <<others, stopped, needsDone, currentFormat, asyncPending, mutex,
                   condSig, queues, want, decState, buffered, framesOut, cpc, closeFrom,
                   feedArg, drainVars, ncalls, crashed, feedHist, workerHist, delivered,
                   closeHist>>

\* Open and Data::close of another session, as far as they touch the statics.
OpenOther ==
    /\ JsRunning /\ others < MaxOthers
    /\ extName' = IF extName = "empty" THEN "other" ELSE extName
    /\ openCount' = openCount + 1
    /\ others' = others + 1
    /\ UNCHANGED <<alloc, handle, dataFlags, asyncVars, thread, mutex,
                   condSig, queues, workerVars, cpc, closeFrom, feedArg, drainVars,
                   callVars, crashed, feedHist, workerHist, delivered, closeHist>>

CloseOther ==
    /\ JsRunning /\ others > 0
    /\ openCount' = openCount - 1
    /\ extName' = IF openCount - 1 = 0 THEN "empty" ELSE extName
    /\ others' = others - 1
    /\ UNCHANGED <<alloc, handle, dataFlags, asyncVars, thread,
                   mutex, condSig, queues, workerVars, cpc, closeFrom, feedArg,
                   drainVars, callVars, crashed, feedHist, workerHist, delivered,
                   closeHist>>

\* ------------------------------------------------------- handle lookup
\* Local<Private>::New(iso, Data::extName) followed by obj->HasPrivate(ctx, extName) on
\* the session's handle. With Data::extName empty the Local is empty and HasPrivate
\* dereferences a null handle: undefined behaviour, modelled as any of its outcomes.
HasPrivate ==
    IF extName = "empty" THEN {"crash", "absent", "present"}
    ELSE IF extName = "mine" THEN {"present"} ELSE {"absent"}

\* ------------------------------------------------------------------ Feed
FeedKinds == {"notbuffer", "buffer"}

\* NAN_METHOD(Feed) up to uv_mutex_lock.
FeedCall(kind, size, found) ==
    /\ JsRunning /\ handle = "held"
    /\ kind # "buffer" => size = 0
    /\ found \in HasPrivate
    /\ crashed' = (found = "crash")
    /\ LET proceeds == found = "present" /\ decoder # "null" /\ kind = "buffer" /\ size > 0
       IN /\ IF proceeds THEN feeds < MaxFeeds /\ ncalls' = ncalls
                         ELSE ncalls < MaxCalls /\ ncalls' = ncalls + 1
          /\ thrown' =
                CASE found = "crash" -> thrown
                  [] found = "absent" -> "Argument must have an external"
                  [] decoder = "null" -> "Decoder not open"
                  [] kind = "notbuffer" -> "Feed needs a Buffer argument"
                  [] size = 0 -> "ok"
                  [] OTHER -> "pending"
          /\ cpc' = IF proceeds THEN "feed_lock" ELSE cpc
          /\ feedArg' = IF proceeds THEN size ELSE feedArg
    /\ UNCHANGED <<statics, alloc, handle, dataFlags, asyncVars, thread,
                   mutex, condSig, queues, workerVars, closeFrom, drainVars, feedHist,
                   workerHist, delivered, closeHist>>

\* The bytes of the next fed buffer: the fed stream is numbered 1, 2, 3, ...
NextBytes(n) == [i \in 1..n |-> fedCount + i]

FeedLockedNoLock ==
    /\ Running /\ cpc = "feed_lock"
    /\ inbuffers' = Append(inbuffers, [where |-> 0, buffer |-> NextBytes(feedArg)])
    /\ CondSignal
    /\ feeds' = feeds + 1 /\ fedCount' = fedCount + feedArg
    /\ feedArg' = 0
    /\ thrown' = "ok"
    /\ cpc' = "js"
    /\ UNCHANGED <<statics, alloc, handle, dataFlags, asyncVars, thread,
                   mutex, messages, workerVars, closeFrom, drainVars, ncalls, crashed,
                   workerHist, delivered, closeHist>>

\* NAN_METHOD(Feed): uv_mutex_lock, push_back, uv_cond_signal, uv_mutex_unlock.
FeedLocked ==
    /\ Running /\ cpc = "feed_lock" /\ mutex = "free"
    /\ inbuffers' = Append(inbuffers, [where |-> 0, buffer |-> NextBytes(feedArg)])
    /\ CondSignal
    /\ feeds' = feeds + 1 /\ fedCount' = fedCount + feedArg
    /\ feedArg' = 0
    /\ thrown' = "ok"
    /\ cpc' = "js"
    /\ UNCHANGED <<statics, alloc, handle, dataFlags, asyncVars, thread,
                   mutex, messages, workerVars, closeFrom, drainVars, ncalls, crashed,
                   workerHist, delivered, closeHist>>

\* ----------------------------------------------------------- Data::close
\* Data::close returns to its caller `from`: NAN_METHOD(Close) returns;
\* Data::weakCallback goes on to uv_close the async handle (or to delete the Data);
\* asyncCallback goes on to call the callback with End.
CloseReturn(from) ==
    /\ cpc' = IF from = "End" THEN "call" ELSE "js"
    /\ thrown' = IF from = "Close" THEN "ok" ELSE thrown
    /\ IF from = "weak"
       THEN IF asyncState # "uninit"
            THEN asyncState' = "closing" /\ asyncPending' = FALSE /\ alloc' = alloc
            ELSE alloc' = "freed" /\ UNCHANGED asyncVars
       ELSE UNCHANGED <<asyncVars, alloc>>

\* Data::close after the join: context.Reset, callback.Reset, decoder finish and
\* delete, decoder = nullptr.
CloseRelease(from) ==
    /\ cbSet' = FALSE
    /\ decoder' = "null"
    /\ deleteCount' = deleteCount + 1
    /\ CloseReturn(from)

DataCloseUnguarded(from) ==
    /\ closeCalls' = closeCalls + 1
    /\ openCount' = openCount - 1
    /\ extName' = IF openCount - 1 = 0 THEN "empty" ELSE extName
    /\ closeRuns' = closeRuns + 1
    /\ IF stopped
       THEN CloseRelease(from) /\ UNCHANGED closeFrom
       ELSE /\ cpc' = "close_lock"
            /\ closeFrom' = from
            /\ thrown' = IF from = "Close" THEN "pending" ELSE thrown
            /\ UNCHANGED <<cbSet, decoder, deleteCount, asyncVars, alloc>>

\* Data::close called from `from`, up to uv_mutex_lock: nothing if decoder is null;
\* otherwise --openCount (extName.Reset at zero) and, unless already stopped, the lock.
DataClose(from) ==
    /\ closeCalls' = closeCalls + 1
    /\ IF decoder = "null"
       THEN /\ CloseReturn(from)
            /\ UNCHANGED <<openCount, extName, closeRuns, closeFrom, cbSet, decoder,
                           deleteCount>>
       ELSE /\ openCount' = openCount - 1
            /\ extName' = IF openCount - 1 = 0 THEN "empty" ELSE extName
            /\ closeRuns' = closeRuns + 1
            /\ IF stopped
               THEN CloseRelease(from) /\ UNCHANGED closeFrom
               ELSE /\ cpc' = "close_lock"
                    /\ closeFrom' = from
                    /\ thrown' = IF from = "Close" THEN "pending" ELSE thrown
                    /\ UNCHANGED <<cbSet, decoder, deleteCount, asyncVars, alloc>>

\* Data::close: uv_mutex_lock, stopped = true, uv_cond_signal, uv_mutex_unlock.
CloseLock ==
    /\ Running /\ cpc = "close_lock" /\ mutex = "free"
    /\ stopped' = TRUE
    /\ CondSignal
    /\ cpc' = "close_join"
    /\ closeWaitSteps' = 0
    /\ UNCHANGED <<statics, alloc, handle, needsDone, cbSet, decoder,
                   currentFormat, asyncVars, thread, mutex, queues, workerVars,
                   closeFrom, feedArg, drainVars, callVars, crashed, feedHist,
                   readOut, enq, exitReason, donesSinceRead, handed, delivered,
                   closeHist>>

\* Data::close: uv_thread_join returns once flacThread has returned; then the release.
CloseJoin ==
    /\ Running /\ cpc = "close_join" /\ wpc = "exited"
    /\ thread' = "joined"
    /\ joinCount' = joinCount + 1
    /\ CloseRelease(closeFrom)
    /\ closeFrom' = "none"
    /\ UNCHANGED <<statics, handle, stopped, needsDone, currentFormat,
                   mutex, condSig, queues, workerVars, feedArg, drainVars, ncalls,
                   crashed, feedHist, workerHist, delivered, closeRuns, closeCalls>>

\* ------------------------------------------------------------------ Close
\* NAN_METHOD(Close) up to the first blocking call of Data::close.
CloseCall(found) ==
    /\ JsRunning /\ handle = "held" /\ ncalls < MaxCalls
    /\ found \in HasPrivate
    /\ ncalls' = ncalls + 1
    /\ crashed' = (found = "crash")
    /\ IF found = "present"
       THEN DataClose("Close")
       ELSE /\ thrown' = IF found = "absent" THEN "Argument must have an external"
                           ELSE thrown
            /\ UNCHANGED <<openCount, extName, closeRuns, closeCalls, closeFrom, cpc,
                           cbSet, decoder, deleteCount, asyncVars, alloc>>
    /\ UNCHANGED <<others, handle, stopped, needsDone,
                   currentFormat, thread, mutex, condSig, queues, workerVars, feedArg,
                   drainVars, feedHist, workerHist, delivered, joinCount>>

\* ----------------------------------------------------- Data::weakCallback
WeakCallbackNoClose ==
    /\ JsRunning /\ handle = "held"
    /\ handle' = "gone"
    /\ asyncState' = "closing" /\ asyncPending' = FALSE
    /\ UNCHANGED <<statics, alloc, dataFlags, thread, mutex, condSig, queues,
                   workerVars, cpc, closeFrom, feedArg, drainVars, callVars, crashed,
                   feedHist, workerHist, delivered, closeHist>>

\* The handle has been collected: Data::weakCallback calls Data::close, then uv_close.
WeakCallback ==
    /\ JsRunning /\ handle = "held"
    /\ handle' = "gone"
    /\ DataClose("weak")
    /\ UNCHANGED <<others, stopped, needsDone, currentFormat,
                   thread, mutex, condSig, queues, workerVars, feedArg, drainVars,
                   ncalls, crashed, feedHist, workerHist, delivered, joinCount>>

\* The close callback given to uv_close: delete the Data.
CloseCb ==
    /\ TopLevel /\ asyncState = "closing"
    /\ asyncState' = "closed"
    /\ alloc' = "freed"
    /\ UNCHANGED <<statics, handle, dataFlags, asyncPending, thread, mutex,
                   condSig, queues, workerVars, cpc, closeFrom, feedArg, drainVars,
                   callVars, crashed, feedHist, workerHist, delivered, closeHist>>

\* ---------------------------------------------------- Data::asyncCallback
\* The loop invokes asyncCallback for a pending wake; it blocks in uv_mutex_lock.
AsyncWake ==
    /\ TopLevel /\ asyncState = "active" /\ asyncPending
    /\ asyncPending' = FALSE
    /\ cpc' = "drain_lock"
    /\ UNCHANGED <<statics, alloc, handle, dataFlags, asyncState, thread,
                   mutex, condSig, queues, workerVars, closeFrom, feedArg, drainVars,
                   callVars, crashed, feedHist, workerHist, delivered, closeHist>>

TakeMessagesCopy(q) == [taken |-> q, left |-> q]

\* What asyncCallback takes from data->messages under the mutex, and what it leaves.
TakeMessages(q) == [taken |-> q, left |-> <<>>]

\* asyncCallback: localMessages = std::move(data->messages) under the mutex, then the
\* Local context and callback are made from the Persistents.
AsyncTake ==
    /\ Running /\ cpc = "drain_lock" /\ mutex = "free"
    /\ local' = TakeMessages(messages).taken
    /\ messages' = TakeMessages(messages).left
    /\ localCb' = cbSet
    /\ cpc' = "deliver"
    /\ UNCHANGED <<statics, alloc, handle, dataFlags, asyncVars, thread,
                   mutex, condSig, inbuffers, workerVars, closeFrom, feedArg,
                   inCallback, callVars, crashed, feedHist, workerHist, delivered,
                   closeHist>>

\* asyncCallback: the for loop is over, asyncCallback returns to the loop.
AsyncReturn ==
    /\ Running /\ cpc = "deliver" /\ local = <<>>
    /\ cpc' = "js"
    /\ localCb' = FALSE
    /\ UNCHANGED <<statics, alloc, handle, dataFlags, asyncVars, thread,
                   mutex, condSig, queues, workerVars, closeFrom, feedArg, local,
                   inCallback, callVars, crashed, feedHist, workerHist, delivered,
                   closeHist>>

AsyncEndNoClose ==
    /\ Running /\ cpc = "deliver" /\ local # <<>> /\ Head(local).type = "End"
    /\ cpc' = "call"
    /\ UNCHANGED <<statics, alloc, handle, dataFlags, asyncVars, thread, mutex,
                   condSig, queues, workerVars, closeFrom, feedArg, drainVars, callVars,
                   crashed, feedHist, workerHist, delivered, closeHist>>

\* asyncCallback: case End calls Data::close before it calls the callback.
AsyncEnd ==
    /\ Running /\ cpc = "deliver" /\ local # <<>> /\ Head(local).type = "End"
    /\ DataClose("End")
    /\ UNCHANGED <<others, handle, stopped, needsDone,
                   currentFormat, thread, mutex, condSig, queues, workerVars, feedArg,
                   drainVars, ncalls, crashed, feedHist, workerHist, delivered,
                   joinCount>>

\* callback->Call(context, callback, ...) on the Locals made at the top of
\* asyncCallback. On empty Locals (the Persistents had been Reset) the call dereferences
\* a null handle: the process dies, or the call fails and the loop goes on.
CallOutcomes == IF localCb THEN {"called"} ELSE {"crash", "failed"}

\* asyncCallback: the callback is called with the message at the head of the loop
\* (for End, after Data::close has returned).
AsyncCall(outcome) ==
    /\ Running
    /\ \/ cpc = "call"
       \/ cpc = "deliver" /\ local # <<>> /\ Head(local).type # "End"
    /\ outcome \in CallOutcomes
    /\ crashed' = (outcome = "crash")
    /\ delivered' = IF outcome = "called" THEN Append(delivered, Head(local)) ELSE delivered
    /\ inCallback' = (outcome = "called")
    /\ local' = IF outcome = "failed" THEN Tail(local) ELSE local
    /\ cpc' = CASE outcome = "called" -> "js"
                [] outcome = "failed" -> "deliver"
                [] OTHER -> cpc
    /\ UNCHANGED <<statics, alloc, handle, dataFlags, asyncVars, thread,
                   mutex, condSig, queues, workerVars, closeFrom, feedArg, localCb,
                   callVars, feedHist, workerHist, closeHist>>

\* The consumer callback returns to the for loop of asyncCallback.
CallbackReturn ==
    /\ JsRunning /\ inCallback
    /\ inCallback' = FALSE
    /\ local' = Tail(local)
    /\ cpc' = "deliver"
    /\ UNCHANGED <<statics, alloc, handle, dataFlags, asyncVars, thread,
                   mutex, condSig, queues, workerVars, closeFrom, feedArg, localCb,
                   callVars, crashed, feedHist, workerHist, delivered, closeHist>>

\* ------------------------------------------------------- Data::flacThread
DoneMsg == Msg("Done", NoFormat, <<>>)
EndMsg == Msg("End", NoFormat, <<>>)

OwedDoneKeepsFlag(flag) ==
    [msgs |-> IF flag THEN <<DoneMsg>> ELSE <<>>, needsDone |-> flag]

\* 'if (needsDone) { needsDone = false; messages.push_back(Done) }', in readCallback
\* and in flacThread: the Messages pushed and the flag afterwards.
OwedDone(flag) ==
    [msgs |-> IF flag THEN <<DoneMsg>> ELSE <<>>, needsDone |-> FALSE]

\* flacThread: uv_mutex_lock, then the first FLAC__stream_decoder_process_single.
WorkerStart ==
    /\ Running /\ wpc = "start" /\ mutex = "free"
    /\ mutex' = "worker"
    /\ wpc' = "dec"
    /\ UNCHANGED <<statics, alloc, handle, dataFlags, asyncVars, thread,
                   condSig, queues, want, decState, buffered, framesOut, cpc, closeFrom,
                   feedArg, drainVars, callVars, crashed, feedHist, workerHist,
                   delivered, closeHist>>

\* The decoder calls the read callback asking for n bytes.
DecRead(n) ==
    /\ Running /\ wpc = "dec" /\ decState = "normal"
    /\ want' = n
    /\ wpc' = "read"
    /\ UNCHANGED <<statics, alloc, handle, dataFlags, asyncVars, thread,
                   mutex, condSig, queues, decState, buffered, framesOut, cpc,
                   closeFrom, feedArg, drainVars, callVars, crashed, feedHist,
                   workerHist, delivered, closeHist>>

RECURSIVE CopyLoopNoAdvance(_, _, _)
CopyLoopNoAdvance(bufs, rem, out) ==
    IF rem = 0 \/ bufs = <<>>
    THEN [inbuffers |-> bufs, bytes |-> out]
    ELSE LET front == Head(bufs)
             avail == Len(front.buffer) - front.where
             toread == IF avail < rem THEN avail ELSE rem
             copied == SubSeq(front.buffer, front.where + 1, front.where + toread)
         IN IF toread = avail
            THEN CopyLoopNoAdvance(Tail(bufs), rem - toread, out \o copied)
            ELSE [inbuffers |-> bufs, bytes |-> out \o copied]

\* readCallback, the copy loop: up to rem bytes from the front of bufs, erasing a
\* buffer that is read to its end and advancing `where` otherwise.
RECURSIVE CopyLoop(_, _, _)
CopyLoop(bufs, rem, out) ==
    IF rem = 0 \/ bufs = <<>>
    THEN [inbuffers |-> bufs, bytes |-> out]
    ELSE LET front == Head(bufs)
             avail == Len(front.buffer) - front.where
             toread == IF avail < rem THEN avail ELSE rem
             copied == SubSeq(front.buffer, front.where + 1, front.where + toread)
         IN IF toread = avail
            THEN CopyLoop(Tail(bufs), rem - toread, out \o copied)
            ELSE CopyLoop(<<[front EXCEPT !.where = front.where + toread]>> \o Tail(bufs),
                          rem - toread, out \o copied)

\* readCallback, the wait loop with an empty queue: a Done message if one is owed,
\* then uv_cond_wait, which releases the mutex.
ReadWait ==
    /\ Running /\ wpc = "read" /\ ~stopped /\ inbuffers = <<>>
    /\ needsDone' = OwedDone(needsDone).needsDone
    /\ messages' = messages \o OwedDone(needsDone).msgs
    /\ enq' = enq \o OwedDone(needsDone).msgs
    /\ donesSinceRead' = donesSinceRead + Len(OwedDone(needsDone).msgs)
    /\ IF needsDone THEN AsyncSend ELSE UNCHANGED asyncPending
    /\ mutex' = "free"
    /\ condSig' = FALSE
    /\ wpc' = "wait"
    /\ UNCHANGED <<statics, alloc, handle, stopped, cbSet, decoder,
                   currentFormat, asyncState, thread, inbuffers, want, decState,
                   buffered, framesOut, cpc, closeFrom, feedArg, drainVars, callVars,
                   crashed, feedHist, readOut, exitReason, closeWaitSteps, handed,
                   delivered, closeHist>>

\* uv_cond_wait returns, signalled or spuriously, with the mutex held again; the
\* while condition is evaluated again.
ReadWake(spurious) ==
    /\ Running /\ wpc = "wait" /\ mutex = "free"
    /\ spurious = ~condSig
    /\ mutex' = "worker"
    /\ condSig' = FALSE
    /\ wpc' = "read"
    /\ UNCHANGED <<statics, alloc, handle, dataFlags, asyncVars, thread,
                   queues, want, decState, buffered, framesOut, cpc, closeFrom, feedArg,
                   drainVars, callVars, crashed, feedHist, workerHist, delivered,
                   closeHist>>

\* readCallback with stopped set: *bytes = 0 and END_OF_STREAM; the decoder goes to
\* its end-of-stream state and process_single returns.
ReadStopped ==
    /\ Running /\ wpc = "read" /\ stopped
    /\ decState' = "eos"
    /\ want' = 0
    /\ wpc' = "check"
    /\ UNCHANGED <<statics, alloc, handle, dataFlags, asyncVars, thread,
                   mutex, condSig, queues, buffered, framesOut, cpc, closeFrom,
                   feedArg, drainVars, callVars, crashed, feedHist, workerHist,
                   delivered, closeHist>>

ReadDataNoRecheck ==
    /\ Running /\ wpc = "read" /\ ~stopped
    /\ LET r == CopyLoop(inbuffers, want, <<>>)
       IN /\ inbuffers' = r.inbuffers
          /\ readOut' = readOut \o r.bytes
          /\ buffered' = (buffered \/ r.bytes # <<>>)
    /\ needsDone' = TRUE
    /\ donesSinceRead' = 0
    /\ want' = 0
    /\ wpc' = "dec"
    /\ UNCHANGED <<statics, alloc, handle, stopped, cbSet, decoder,
                   currentFormat, asyncVars, thread, mutex, condSig, messages,
                   decState, framesOut, cpc, closeFrom, feedArg, drainVars, callVars,
                   crashed, feedHist, enq, exitReason, closeWaitSteps, handed, delivered,
                   closeHist>>

\* readCallback with data queued: needsDone = true, the copy loop, CONTINUE.
ReadData ==
    /\ Running /\ wpc = "read" /\ ~stopped /\ inbuffers # <<>>
    /\ LET r == CopyLoop(inbuffers, want, <<>>)
       IN /\ inbuffers' = r.inbuffers
          /\ readOut' = readOut \o r.bytes
          /\ buffered' = (buffered \/ r.bytes # <<>>)
    /\ needsDone' = TRUE
    /\ donesSinceRead' = 0
    /\ want' = 0
    /\ wpc' = "dec"
    /\ UNCHANGED <<statics, alloc, handle, stopped, cbSet, decoder,
                   currentFormat, asyncVars, thread, mutex, condSig, messages,
                   decState, framesOut, cpc, closeFrom, feedArg, drainVars, callVars,
                   crashed, feedHist, enq, exitReason, closeWaitSteps, handed, delivered,
                   closeHist>>

\* Data::formatChanged and Data::pushFormat: 24 bits per sample are reported as 32.
NormalizedBps(bps) == IF bps = 24 THEN 32 ELSE bps

FrameFormat(h) ==
    [sampleRate |-> h.sample_rate, channels |-> h.channels,
     bitsPerSample |-> NormalizedBps(h.bits_per_sample)]

formatChangedRaw(h) ==
    \/ h.sample_rate # currentFormat.sampleRate
    \/ h.channels # currentFormat.channels
    \/ h.bits_per_sample # currentFormat.bitsPerSample

formatChanged(h) ==
    \/ h.sample_rate # currentFormat.sampleRate
    \/ h.channels # currentFormat.channels
    \/ NormalizedBps(h.bits_per_sample) # currentFormat.bitsPerSample

\* (unsigned char)(x >> k) of a FLAC__int32 x.
ByteOf(x, k) == (x \div (2 ^ k)) % 256

SampleBytesPadHigh(bits, x) ==
    CASE bits = 8 -> <<ByteOf(x, 0)>>
      [] bits = 16 -> <<ByteOf(x, 0), ByteOf(x, 8)>>
      [] bits = 24 -> <<ByteOf(x, 0), ByteOf(x, 8), ByteOf(x, 16), 0>>
      [] bits = 32 -> <<ByteOf(x, 0), ByteOf(x, 8), ByteOf(x, 16), ByteOf(x, 24)>>
      [] OTHER -> <<>>

\* writeCallback, the switch on bits_per_sample: the bytes written for one sample.
SampleBytes(bits, x) ==
    CASE bits = 8 -> <<ByteOf(x, 0)>>
      [] bits = 16 -> <<ByteOf(x, 0), ByteOf(x, 8)>>
      [] bits = 24 -> <<0, ByteOf(x, 0), ByteOf(x, 8), ByteOf(x, 16)>>
      [] bits = 32 -> <<ByteOf(x, 0), ByteOf(x, 8), ByteOf(x, 16), ByteOf(x, 24)>>
      [] OTHER -> <<>>

\* writeCallback, the string dt: blocksize * channels * (bps / 8) bytes, zero after
\* resize, filled sample by sample and, within a sample, channel by channel.
FramePayload(h, buffer) ==
    LET size == h.blocksize * h.channels * (NormalizedBps(h.bits_per_sample) \div 8)
        w == Len(SampleBytes(h.bits_per_sample, 0))
    IN [k \in 1..size |->
          IF w = 0 THEN 0
          ELSE LET s == (k - 1) \div w
                   i == (s \div h.channels) + 1
                   j == (s % h.channels) + 1
               IN SampleBytes(h.bits_per_sample, buffer[j][i])[((k - 1) % w) + 1]]

\* The Messages writeCallback pushes for a frame with header h and samples buffer.
WriteMessages(h, buffer) ==
    (IF formatChanged(h) THEN <<Msg("Format", FrameFormat(h), <<>>)>> ELSE <<>>)
    \o (IF FramePayload(h, buffer) # <<>>
        THEN <<Msg("Data", NoFormat, FramePayload(h, buffer))>> ELSE <<>>)

\* The decoder hands a decoded frame to writeCallback and process_single returns.
DecWrite(h, x) ==
    /\ Running /\ wpc = "dec" /\ decState = "normal" /\ buffered
    /\ LET ms == WriteMessages(h, FrameBuffer(h, x))
       IN /\ messages' = messages \o ms
          /\ enq' = enq \o ms
          /\ IF ms # <<>> THEN AsyncSend ELSE UNCHANGED asyncPending
    /\ currentFormat' = IF formatChanged(h) THEN FrameFormat(h) ELSE currentFormat
    /\ written' = Append(written, [header |-> h, x |-> x])
    /\ framesOut' = framesOut + 1
    /\ buffered' = FALSE
    /\ wpc' = "check"
    /\ UNCHANGED <<statics, alloc, handle, stopped, needsDone, cbSet,
                   decoder, asyncState, thread, mutex, condSig, inbuffers, want,
                   decState, cpc, closeFrom, feedArg, drainVars, callVars, crashed,
                   feedHist, readOut, exitReason, donesSinceRead, closeWaitSteps, blocks,
                   delivered, closeHist>>

\* metadataCallback calls uv_mutex_lock on the mutex flacThread already holds. A
\* default pthread mutex blocks for ever, an error-checking one (libuv built without
\* NDEBUG) makes uv_mutex_lock abort, a recursive one (CRITICAL_SECTION) is re-entered.
RelockOutcomes == {"deadlock", "abort", "recursive"}

MetadataTypes == {"STREAMINFO", "VORBIS_COMMENT"}

LastEq(e) ==
    IF \E i \in 1..Len(e) : e[i] = "="
    THEN CHOOSE i \in 1..Len(e) : e[i] = "=" /\ \A k \in (i + 1)..Len(e) : e[k] # "="
    ELSE 0

\* memchr(entry.entry, '=', entry.length): the index of the first '=', 0 if none.
FirstEq(e) ==
    IF \E i \in 1..Len(e) : e[i] = "="
    THEN CHOOSE i \in 1..Len(e) : e[i] = "=" /\ \A k \in 1..(i - 1) : e[k] # "="
    ELSE 0

\* metadataCallback, the lambda split: the pairs it appends to meta.tags for one entry.
split(e) ==
    IF FirstEq(e) = 0 THEN <<>>
    ELSE << <<SubSeq(e, 1, FirstEq(e) - 1), SubSeq(e, FirstEq(e) + 1, Len(e))>> >>

RECURSIVE SplitAll(_)
SplitAll(es) == IF es = <<>> THEN <<>> ELSE split(Head(es)) \o SplitAll(Tail(es))

\* metadataCallback: meta.tags after split(vendor_string) and split(comments[i]) for
\* every i in order.
ParseTags(block) == split(block.vendor_string) \o SplitAll(block.comments)

MetadataMsg(block) == Msg("Metadata", NoFormat, ParseTags(block))

\* The decoder hands a metadata block to metadataCallback; metadata blocks precede
\* the frames of a stream.
DecMetadata(type, relock, block) ==
    /\ Running /\ wpc = "dec" /\ decState = "normal" /\ buffered /\ framesOut = 0
    /\ type # "VORBIS_COMMENT" => relock = "recursive"
    /\ blocks' = IF type = "VORBIS_COMMENT" THEN Append(blocks, block) ELSE blocks
    /\ LET pushes == type = "VORBIS_COMMENT" /\ relock = "recursive"
           returns == type # "VORBIS_COMMENT" \/ relock = "recursive"
       IN /\ messages' = IF pushes THEN Append(messages, MetadataMsg(block)) ELSE messages
          /\ enq' = IF pushes THEN Append(enq, MetadataMsg(block)) ELSE enq
          /\ asyncPending' = (asyncPending \/ pushes)
          /\ buffered' = IF returns THEN FALSE ELSE buffered
          /\ wpc' = IF returns THEN "check"
                    ELSE IF relock = "deadlock" THEN "deadlock" ELSE wpc
          /\ crashed' = (~returns /\ relock = "abort")
    /\ UNCHANGED <<statics, alloc, handle, dataFlags, asyncState, thread,
                   mutex, condSig, inbuffers, want, decState, framesOut, cpc, closeFrom,
                   feedArg, drainVars, callVars, feedHist, readOut, exitReason,
                   donesSinceRead, closeWaitSteps, written, delivered, closeHist>>

\* process_single returns without a frame or metadata callback: a failed step, or the
\* decoder finding that every sample of the stream has been decoded.
DecReturn(eos) ==
    /\ Running /\ wpc = "dec" /\ decState = "normal"
    /\ eos => framesOut > 0
    /\ decState' = IF eos THEN "eos" ELSE decState
    /\ wpc' = "check"
    /\ UNCHANGED <<statics, alloc, handle, dataFlags, asyncVars, thread,
                   mutex, condSig, queues, want, buffered, framesOut, cpc, closeFrom,
                   feedArg, drainVars, callVars, crashed, feedHist, workerHist,
                   delivered, closeHist>>

\* The Messages flacThread pushes when the decoder is at end of stream.
EndMessages == OwedDone(needsDone).msgs \o <<EndMsg>>

WorkerCheckEosFirst ==
    /\ Running /\ wpc = "check"
    /\ IF stopped /\ decState # "eos"
       THEN /\ wpc' = "exited" /\ mutex' = "free" /\ exitReason' = "stop"
            /\ UNCHANGED <<needsDone, messages, enq, donesSinceRead, asyncPending,
                           closeWaitSteps>>
       ELSE IF decState = "eos"
            THEN /\ messages' = messages \o EndMessages
                 /\ enq' = enq \o EndMessages
                 /\ donesSinceRead' = donesSinceRead + Len(OwedDone(needsDone).msgs)
                 /\ needsDone' = OwedDone(needsDone).needsDone
                 /\ AsyncSend
                 /\ wpc' = "exited" /\ mutex' = "free" /\ exitReason' = "eos"
                 /\ UNCHANGED closeWaitSteps
            ELSE /\ wpc' = "dec"
                 /\ closeWaitSteps' = IF cpc = "close_lock" /\ closeWaitSteps < 2
                                      THEN closeWaitSteps + 1 ELSE closeWaitSteps
                 /\ UNCHANGED <<mutex, exitReason, needsDone, messages, enq,
                                donesSinceRead, asyncPending>>
    /\ UNCHANGED <<statics, alloc, handle, stopped, cbSet, decoder,
                   currentFormat, asyncState, thread, condSig, inbuffers, want,
                   decState, buffered, framesOut, cpc, closeFrom, feedArg, drainVars,
                   callVars, crashed, feedHist, readOut, handed, delivered, closeHist>>

\* flacThread after process_single: break if stopped; at end of stream push Done if
\* owed, push End, uv_async_send and break; otherwise loop. A break unlocks the mutex
\* and the thread returns.
WorkerCheck ==
    /\ Running /\ wpc = "check"
    /\ IF stopped
       THEN /\ wpc' = "exited" /\ mutex' = "free" /\ exitReason' = "stop"
            /\ UNCHANGED <<needsDone, messages, enq, donesSinceRead, asyncPending,
                           closeWaitSteps>>
       ELSE IF decState = "eos"
            THEN /\ messages' = messages \o EndMessages
                 /\ enq' = enq \o EndMessages
                 /\ donesSinceRead' = donesSinceRead + Len(OwedDone(needsDone).msgs)
                 /\ needsDone' = OwedDone(needsDone).needsDone
                 /\ AsyncSend
                 /\ wpc' = "exited" /\ mutex' = "free" /\ exitReason' = "eos"
                 /\ UNCHANGED closeWaitSteps
            ELSE /\ wpc' = "dec"
                 /\ closeWaitSteps' = IF cpc = "close_lock" /\ closeWaitSteps < 2
                                      THEN closeWaitSteps + 1 ELSE closeWaitSteps
                 /\ UNCHANGED <<mutex, exitReason, needsDone, messages, enq,
                                donesSinceRead, asyncPending>>
    /\ UNCHANGED <<statics, alloc, handle, stopped, cbSet, decoder,
                   currentFormat, asyncState, thread, condSig, inbuffers, want,
                   decState, buffered, framesOut, cpc, closeFrom, feedArg, drainVars,
                   callVars, crashed, feedHist, readOut, handed, delivered, closeHist>>

\* ---------------------------------------------------------- specification
Consumer ==
    \/ \E fail \in OpenFailures : OpenFail(fail)
    \/ OpenOk
    \/ OpenOther
    \/ CloseOther
    \/ \E kind \in FeedKinds, size \in 0..MaxChunk, found \in {"crash", "absent", "present"} :
          FeedCall(kind, size, found)
    \/ FeedLocked
    \/ \E found \in {"crash", "absent", "present"} : CloseCall(found)
    \/ CloseLock
    \/ CloseJoin
    \/ WeakCallback
    \/ CloseCb
    \/ AsyncWake
    \/ AsyncTake
    \/ AsyncReturn
    \/ AsyncEnd
    \/ \E outcome \in {"called", "crash", "failed"} : AsyncCall(outcome)
    \/ CallbackReturn

Worker ==
    \/ WorkerStart
    \/ \E n \in 1..MaxWant : DecRead(n)
    \/ ReadWait
    \/ \E spurious \in BOOLEAN : ReadWake(spurious)
    \/ ReadStopped
    \/ ReadData
    \/ \E h \in FrameHeaders : DecWrite(h, framesOut + 1)
    \/ \E type \in MetadataTypes, relock \in RelockOutcomes, block \in CommentBlocks :
          DecMetadata(type, relock, block)
    \/ \E eos \in BOOLEAN : DecReturn(eos)
    \/ WorkerCheck

Next == Consumer \/ Worker

Spec == Init /\ [][Next]_vars

\* ------------------------------------------------- the write callback alone
\* A session that was fed one buffer of MaxFrames bytes, with the worker inside its
\* first decode step; the decoder reads a byte and decodes a frame of any header and
\* samples from it, until the input is used up.
WriteHeaders ==
    { [sample_rate |-> 44100, channels |-> 2, bits_per_sample |-> 16, blocksize |-> 1],
      [sample_rate |-> 44100, channels |-> 2, bits_per_sample |-> 24, blocksize |-> 2],
      [sample_rate |-> 44100, channels |-> 2, bits_per_sample |-> 32, blocksize |-> 1],
      [sample_rate |-> 48000, channels |-> 2, bits_per_sample |-> 16, blocksize |-> 1],
      [sample_rate |-> 44100, channels |-> 1, bits_per_sample |-> 8, blocksize |-> 2] }

SampleValues == {1, -2, 74565}

Opened(nbytes) ==
    /\ openCount = 1 /\ extName = "mine" /\ others = 0
    /\ alloc = "live" /\ handle = "held"
    /\ stopped = FALSE /\ needsDone = FALSE /\ cbSet = TRUE /\ decoder = "live"
    /\ asyncState = "active" /\ asyncPending = FALSE
    /\ thread = "running" /\ mutex = "worker" /\ condSig = FALSE
    /\ inbuffers = << [where |-> 0, buffer |-> [i \in 1..nbytes |-> i]] >>
    /\ messages = <<>> /\ currentFormat = NoFormat
    /\ wpc = "dec" /\ want = 0 /\ decState = "normal" /\ buffered = FALSE /\ framesOut = 0
    /\ cpc = "js" /\ closeFrom = "none" /\ feedArg = 0
    /\ local = <<>> /\ localCb = FALSE /\ inCallback = FALSE
    /\ thrown = "ok" /\ ncalls = 0 /\ crashed = FALSE
    /\ feeds = 1 /\ fedCount = nbytes /\ readOut = <<>> /\ enq = <<>> /\ delivered = <<>>
    /\ joinCount = 0 /\ deleteCount = 0 /\ closeRuns = 0 /\ closeCalls = 0
    /\ exitReason = "none" /\ donesSinceRead = 0 /\ closeWaitSteps = 0
    /\ written = <<>> /\ blocks = <<>>

WriteInit == Opened(MaxFrames)

WriteNext ==
    \/ DecRead(1)
    \/ ReadData
    \/ ReadWait
    \/ \E h \in WriteHeaders, x \in SampleValues : DecWrite(h, x)
    \/ WorkerCheck

WriteSpec == WriteInit /\ [][WriteNext]_vars

\* ---------------------------------------------- the metadata callback alone
\* The same session fed MaxBlocks bytes; the decoder reads a byte and hands a metadata
\* block of any type and content to metadataCallback, until the input is used up.
TagEntries ==
    { <<"A", "=", "b", "=", "c">>, <<"A", "b">>, <<"=", "b">>, <<"A", "=">> }

TagBlocks ==
    { [vendor_string |-> v, comments |-> c] :
        v \in { <<"v">>, <<"v", "=", "1">> },
        c \in {<<>>} \cup { <<e>> : e \in TagEntries }
                    \cup { <<e1, e2>> : e1 \in TagEntries, e2 \in TagEntries } }

TagInit == Opened(MaxBlocks)

TagNext ==
    \/ DecRead(1)
    \/ ReadData
    \/ ReadWait
    \/ \E type \in MetadataTypes, relock \in RelockOutcomes, block \in TagBlocks :
          DecMetadata(type, relock, block)
    \/ WorkerCheck

TagSpec == TagInit /\ [][TagNext]_vars

\* ================================================================ claims
IsPrefix(p, q) == Len(p) <= Len(q) /\ SubSeq(q, 1, Len(p)) = p

EndCount(q) == Cardinality({i \in 1..Len(q) : q[i].type = "End"})

\* C1: when the worker leaves its loop at end of stream, exactly one End has been
\* pushed and it is the last Message ever pushed; an End the callback has been called
\* with is the last Message delivered, every Message pushed before it has been
\* delivered, and from the moment of that call on the worker thread is joined and the
\* decoder handle released.
C1_EndOnceLastAfterTeardown ==
    /\ EndCount(enq) <= 1
    /\ exitReason = "eos" => (EndCount(enq) = 1 /\ enq[Len(enq)].type = "End")
    /\ \A i \in 1..Len(delivered) :
          delivered[i].type = "End" =>
              /\ i = Len(delivered) /\ i = Len(enq)
              /\ thread = "joined" /\ wpc = "exited" /\ decoder = "null"

C1_Witness ==
    /\ exitReason = "eos" /\ inCallback
    /\ delivered # <<>> /\ delivered[Len(delivered)].type = "End"

\* C2: at most one Done is pushed between two reads that supply data, none before the
\* first such read, and whenever the worker waits for input after a read has supplied
\* data exactly one Done has been pushed since that read, however often the wait is
\* re-entered after a wakeup.
C2_OneDonePerStarvation ==
    /\ donesSinceRead <= 1
    /\ readOut = <<>> => donesSinceRead = 0
    /\ (wpc = "wait" /\ readOut # <<>>) => donesSinceRead = 1

C2_Witness ==
    /\ wpc = "read" /\ ~stopped /\ inbuffers = <<>>
    /\ readOut # <<>> /\ donesSinceRead = 1 /\ ~needsDone

SessionState ==
    <<statics, alloc, handle, dataFlags, asyncVars, thread, mutex, condSig, queues,
      workerVars, cpc, closeFrom, feedArg, drainVars, feedHist, workerHist, delivered,
      closeHist>>

UsageErrors ==
    {"Argument must have an external", "Decoder not open", "Feed needs a Buffer argument"}

\* C4: a Feed call on a handle whose session is closed throws a usage error and
\* changes nothing of the session, whatever other sessions are open.
C4_FeedOnClosedFails ==
    [][(handle = "held" /\ decoder = "null"
        /\ \E kind \in FeedKinds, size \in 0..MaxChunk, found \in HasPrivate :
              FeedCall(kind, size, found))
       => (~crashed' /\ thrown' \in UsageErrors /\ UNCHANGED SessionState)]_vars

\* C5: whenever the Data has been deleted, the body of Data::close has run exactly
\* once, the worker thread has returned and been joined, it does not hold the mutex,
\* and the decoder has been released.
C5_FreedOnlyAfterJoin ==
    alloc = "freed" =>
        /\ closeRuns = 1
        /\ thread = "joined" /\ wpc = "exited" /\ mutex = "free"
        /\ decoder = "null"

C5_Witness == alloc = "freed" /\ closeCalls = 1 /\ ncalls = 0

\* C6: the Messages the callback has been called with are, in order and one call
\* each, a prefix of the Messages the worker has pushed.
C6_DeliveredPrefixOfEnqueued == IsPrefix(delivered, enq)

C6_Witness == Len(delivered) >= 3 /\ messages # <<>> /\ cpc = "js" /\ ~inCallback

\* The part of localMessages the callback has not been called with yet.
Undelivered == IF inCallback THEN Tail(local) ELSE local

C8_ConsumerNeverWaitsForWorker ==
    cpc \in {"feed_lock", "drain_lock"} => mutex # "worker"

\* C9: with Data::close called, the worker finishes at most one decode step before
\* it sees the stop flag.
C9_StopSeenWithinOneStep == closeWaitSteps <= 1

RECURSIVE Unread(_)
Unread(bufs) ==
    IF bufs = <<>> THEN <<>>
    ELSE SubSeq(Head(bufs).buffer, Head(bufs).where + 1, Len(Head(bufs).buffer))
         \o Unread(Tail(bufs))

\* C10: the bytes returned by the read callbacks followed by the unread bytes of the
\* queued buffers are exactly the fed stream, in order; a queued buffer is never
\* fully consumed and only the front one is partly consumed.
C10_ReadsArePrefixOfFeeds ==
    /\ readOut \o Unread(inbuffers) = [i \in 1..fedCount |-> i]
    /\ \A i \in 1..Len(inbuffers) :
          /\ inbuffers[i].where < Len(inbuffers[i].buffer)
          /\ i > 1 => inbuffers[i].where = 0

C10_Witness ==
    /\ Len(readOut) >= 2 /\ inbuffers # <<>> /\ Head(inbuffers).where > 0
    /\ fedCount > Len(Head(inbuffers).buffer)

OfType(q, t) == SelectSeq(q, LAMBDA m : m.type = t)

Last(q) == q[Len(q)]

\* The Format a frame header stands for: its sample rate, its channels and its bit
\* depth, 24 counted as 32.
HeaderFormat(h) ==
    [sampleRate |-> h.sample_rate, channels |-> h.channels,
     bitsPerSample |-> IF h.bits_per_sample = 24 THEN 32 ELSE h.bits_per_sample]

\* The Format and Data events a sequence of frames calls for, cur being the Format in
\* effect before it: a Format event for a frame whose Format is not the one in effect.
RECURSIVE ExpectedEvents(_, _)
ExpectedEvents(frames, cur) ==
    IF frames = <<>> THEN <<>>
    ELSE LET f == HeaderFormat(Head(frames).header)
         IN (IF f # cur THEN <<[type |-> "Format", format |-> f]>> ELSE <<>>)
            \o <<[type |-> "Data", format |-> NoFormat]>>
            \o ExpectedEvents(Tail(frames), f)

FrameEvents(q) ==
    LET fd == SelectSeq(q, LAMBDA m : m.type \in {"Format", "Data"})
    IN [i \in 1..Len(fd) |-> [type |-> fd[i].type, format |-> fd[i].format]]

\* C11: over any sequence of decoded frames, the Format and Data events pushed are,
\* in order, one Data event per frame preceded by a Format event exactly when the
\* frame's (sample rate, channels, normalized bit depth) differs from that of the
\* frame before it (from all zero for the first), and currentFormat is the Format of
\* the last frame.
C11_FormatOnChangeOnly ==
    /\ FrameEvents(enq) = ExpectedEvents(written, NoFormat)
    /\ written # <<>> => currentFormat = HeaderFormat(Last(written).header)

C11_Witness ==
    /\ Len(written) = 3
    /\ written[1].header.bits_per_sample = 24
    /\ written[2].header.bits_per_sample = 32
    /\ written[3].header.sample_rate # written[2].header.sample_rate
    /\ Len(OfType(enq, "Format")) = 2 /\ Len(OfType(enq, "Data")) = 3

\* The 24-bit value whose little-endian bytes are bytes[at + 1 .. at + 3].
LittleEndian24(bytes, at) == bytes[at + 1] + 256 * bytes[at + 2] + 65536 * bytes[at + 3]

\* A sample of bit depth 24 as an unsigned 24-bit value (two's complement).
Unsigned24(x) == x % 16777216

\* The sample the s-th group of bytes of a frame's payload encodes (s from 0):
\* samples are interleaved, channel by channel within a sample.
SampleAt(f, s) ==
    FrameBuffer(f.header, f.x)[(s % f.header.channels) + 1][(s \div f.header.channels) + 1]

SampleCount(f) == f.header.blocksize * f.header.channels

\* C12 as stated: for a frame of bit depth 24 the Format in effect has bit depth 32
\* and the payload has 4 bytes per sample, little-endian, the 4th byte zero and the
\* first three the low, middle and high byte of the sample.
C12_HighByteZero ==
    (written # <<>> /\ Last(written).header.bits_per_sample = 24) =>
        LET f == Last(written)
            bytes == Last(OfType(enq, "Data")).data
        IN /\ currentFormat.bitsPerSample = 32
           /\ Len(bytes) = 4 * SampleCount(f)
           /\ \A s \in 0..(SampleCount(f) - 1) :
                 /\ LittleEndian24(bytes, 4 * s) = Unsigned24(SampleAt(f, s))
                 /\ bytes[4 * s + 4] = 0

\* C12 amended: for a frame of bit depth 24 the Format in effect has bit depth 32
\* and the payload has 4 bytes per sample, little-endian, the 1st (low) byte zero and
\* the next three the low, middle and high byte of the sample (the 32-bit value is
\* the sample times 256).
C12_LowByteZero ==
    (written # <<>> /\ Last(written).header.bits_per_sample = 24) =>
        LET f == Last(written)
            bytes == Last(OfType(enq, "Data")).data
        IN /\ currentFormat.bitsPerSample = 32
           /\ Len(bytes) = 4 * SampleCount(f)
           /\ \A s \in 0..(SampleCount(f) - 1) :
                 /\ bytes[4 * s + 1] = 0
                 /\ LittleEndian24(bytes, 4 * s + 1) = Unsigned24(SampleAt(f, s))

C12_Witness ==
    /\ Len(written) = 2 /\ Last(written).header.bits_per_sample = 24
    /\ Last(written).x < 0
    /\ Len(Last(OfType(enq, "Data")).data) = 16

\* C13: every tag block the decoder has handed to the metadata callback has had one
\* Metadata event pushed for it, carrying its parsed pairs, and the worker has gone
\* on decoding.
C13_OneMetadataPerTagBlock ==
    /\ wpc # "deadlock" /\ ~crashed
    /\ Len(OfType(enq, "Metadata")) = Len(blocks)
    /\ \A i \in 1..Len(blocks) : OfType(enq, "Metadata")[i].data = ParseTags(blocks[i])

HasEq(e) == \E i \in 1..Len(e) : e[i] = "="

\* The entries of a tag block: the vendor string, then the comments.
Entries(block) == <<block.vendor_string>> \o block.comments

\* C14: the pairs of every Metadata event are, in order, one pair per entry of its
\* block that contains '=', no pair for an entry that does not; the key of a pair
\* contains no '=', and key, '=' and value put together are the entry (so the entry
\* was split at its first '=' and later ones are part of the value).
C14_SplitAtFirstEq ==
    \A i \in 1..Len(OfType(enq, "Metadata")) :
        LET tags == OfType(enq, "Metadata")[i].data
            kept == SelectSeq(Entries(blocks[i]), HasEq)
        IN /\ Len(tags) = Len(kept)
           /\ \A k \in 1..Len(tags) :
                 /\ ~HasEq(tags[k][1])
                 /\ tags[k][1] \o <<"=">> \o tags[k][2] = kept[k]

C14_Witness ==
    /\ Len(OfType(enq, "Metadata")) = 2
    /\ blocks[2].comments = << <<"A", "b">>, <<"A", "=", "b", "=", "c">> >>
    /\ blocks[2].vendor_string = <<"v", "=", "1">>
    /\ Last(enq).data = << << <<"v">>, <<"1">> >>, << <<"A">>, <<"b", "=", "c">> >> >>

\* C15: after a failing Open the error has been thrown, no worker thread has been
\* started, no async handle is registered on the loop and openCount counts the open
\* sessions only.
C15_FailedOpenLeavesNothing ==
    alloc = "leaked" =>
        /\ thrown \in {OpenError(fail) : fail \in OpenFailures}
        /\ thread = "none" /\ wpc = "none"
        /\ asyncState \in {"uninit", "closed"}
        /\ openCount = others

\* C16: the worker thread is never blocked anywhere but in the uv_cond_wait of the
\* read callback: it never waits for the session mutex, which it holds, inside a
\* decoder callback.
C16_WaitIsOnlySuspension == wpc # "deadlock"

\* The state both threads use.
SharedState == <<inbuffers, messages, currentFormat, stopped, needsDone>>

\* A step of the consumer thread that is a critical section of Feed, Data::close or
\* asyncCallback (lock, access, unlock): these are the steps that leave the lock call.
ConsumerSection == cpc \in {"feed_lock", "close_lock", "drain_lock"} /\ cpc' # cpc

\* Data::close evaluates 'if (!stopped)' before it calls uv_mutex_lock.
CloseReadsStopped == decoder # "null" /\ \E from \in {"Close", "End", "weak"} : DataClose(from)

\* Every write of the shared state is made by the worker holding the mutex or by the
\* consumer in a critical section entered with the mutex free; the worker holds the
\* mutex wherever it is inside its loop and not waiting.
WritesUnderMutex ==
    /\ wpc \in {"dec", "read", "check"} => mutex = "worker"
    /\ SharedState' # SharedState =>
          IF ConsumerSection THEN mutex = "free"
          ELSE mutex = "worker" /\ cpc' = cpc /\ wpc \in {"dec", "read", "check"}

\* C17 as stated: every access to the shared state, reads included, is made by a
\* thread that holds the mutex, so that no thread touches it while the other thread
\* holds the mutex.
C17_AllAccessUnderMutex ==
    [][WritesUnderMutex /\ (CloseReadsStopped => mutex # "worker")]_vars

\* C17 amended: every write of the shared state, and every read of it but one, is
\* made by a thread that holds the mutex; the one read outside it is the test of the
\* stop flag at the top of Data::close, on the consumer thread, which is the only
\* thread that ever writes that flag (inside Data::close, under the mutex).
C17_WritesUnderMutex ==
    [][/\ WritesUnderMutex
       /\ stopped' # stopped => (cpc = "close_lock" /\ ConsumerSection)
      ]_vars

C17_Witness == cpc = "close_lock" /\ mutex = "worker" /\ wpc = "check" /\ inbuffers # <<>>

\* C18: the read callback returns only with the session stopped, and then with end
\* of stream, no byte and the queue untouched, or with the queue non-empty, and then
\* with continue and between 1 and *bytes bytes, the next unread ones; it never
\* returns with the queue empty and the session not stopped, whatever woke it.
C18_ReadReturnsOnlyOnStopOrData ==
    [][(wpc = "read" /\ wpc' \in {"dec", "check"}) =>
          IF stopped
          THEN /\ wpc' = "check" /\ decState' = "eos"
               /\ inbuffers' = inbuffers /\ readOut' = readOut
          ELSE /\ inbuffers # <<>> /\ wpc' = "dec"
               /\ Len(readOut') - Len(readOut) \in 1..want
               /\ IsPrefix(readOut', readOut \o Unread(inbuffers))
      ]_vars

C18_Witness ==
    /\ wpc = "check" /\ stopped /\ decState = "eos" /\ exitReason = "none"
    /\ inbuffers # <<>> /\ readOut # <<>>

EndOrDoneCount(q) == Len(SelectSeq(q, LAMBDA m : m.type \in {"End", "Done"}))

\* C19: with the stop flag set the worker pushes no End and no Done and starts no
\* further decode step after the one it is in, also when the decoder is at end of
\* stream because of the stop; End is pushed only after a decode step that left the
\* decoder at end of stream with the session not stopped.
C19_NoEndAfterStop ==
    [][/\ stopped => EndOrDoneCount(enq') = EndOrDoneCount(enq)
       /\ (stopped /\ wpc = "check") => wpc' \in {"check", "exited"}
       /\ EndCount(enq') > EndCount(enq) => (~stopped /\ decState = "eos" /\ wpc = "check")
      ]_vars

C19_Witness ==
    /\ stopped /\ wpc = "exited" /\ exitReason = "stop" /\ decState = "eos"
    /\ readOut # <<>> /\ EndCount(enq) = 0 /\ thread = "joined"

\* C20: asyncCallback never gets to call the callback through handles made from a
\* context and callback that Data::close has Reset.
C20_NoDispatchAfterClose ==
    ~(cpc \in {"deliver", "call"} /\ local # <<>> /\ ~localCb /\ ~cbSet)

====
